---- MODULE Spec2Model ----
(***************************************************************************)
(* Model of scripts/preconversion_assessment_script.py: main() drives the  *)
(* download / install / run / report / cleanup steps of a convert2rhel     *)
(* pre-conversion analysis and prints one OutputCollector as JSON.         *)
(*                                                                         *)
(* The script targets the system Python 2 of an EL7 host: text-mode reads  *)
(* give byte strings, so hashing and writing them does not raise.          *)
(* Python's None is the string "None" where the other values are strings,  *)
(* and a flagged record where they are lists or dictionaries.              *)
(***************************************************************************)
EXTENDS Integers, Sequences, FiniteSets, TLC

\* ------------------------------------------------------------ bounds

\* Most messages one action of a drawn raw report carries.
MaxMessages == 1

\* ------------------------------------------------- severity taxonomy

Levels == {"SUCCESS", "INFO", "WARNING", "SKIP", "OVERRIDABLE", "ERROR"}

STATUS_CODE ==
    [l \in Levels |->
        CASE l = "SUCCESS" -> 0
          [] l = "INFO" -> 25
          [] l = "WARNING" -> 51
          [] l = "SKIP" -> 101
          [] l = "OVERRIDABLE" -> 152
          [] l = "ERROR" -> 202]

\* ------------------------------------------------ Python value helpers

\* A call's outcome: a returned value, or a raised exception.
Return(v) == [ok |-> TRUE, val |-> v, type |-> "", message |-> ""]
Raise(t, m) == [ok |-> FALSE, val |-> <<>>, type |-> t, message |-> m]

NoException == [type |-> "none", message |-> ""]
Exception(t, m) == [type |-> t, message |-> m]

NoneEntries == [isNone |-> TRUE, list |-> <<>>]
Entries(l) == [isNone |-> FALSE, list |-> l]
\* `if self.entries:` : None and the empty list are both false.
Truthy(e) == ~e.isNone /\ e.list # <<>>

NoneJson == [isNone |-> TRUE]

\* ------------------------------------------------------ OutputCollector

OutputCollector(status, message, report, entries) ==
    [status |-> status,
     message |-> message,
     report |-> report,
     tasks_format_version |-> "1.0",
     tasks_format_id |-> "oamg-format",
     entries |-> entries,
     report_json |-> NoneJson]

\* to_dict changes self.report_json and returns the dictionary: <<self', dict>>.
to_dict_unconditional(self) ==
    LET json == [tasks_format_version |-> self.tasks_format_version,
                 tasks_format_id |-> self.tasks_format_id,
                 entries |-> self.entries.list]
        new == [self EXCEPT !.report_json = json]
    IN  <<new, [status |-> new.status, message |-> new.message,
                report |-> new.report, report_json |-> new.report_json]>>

to_dict(self) ==
    LET json == [tasks_format_version |-> self.tasks_format_version,
                 tasks_format_id |-> self.tasks_format_id,
                 entries |-> self.entries.list]
        new == IF Truthy(self.entries)
               THEN [self EXCEPT !.report_json = json]
               ELSE self
    IN  <<new, [status |-> new.status, message |-> new.message,
                report |-> new.report, report_json |-> new.report_json]>>

\* ------------------------------------------------- collect_report_level

RECURSIVE Concat(_)
Concat(ss) == IF ss = <<>> THEN <<>> ELSE Head(ss) \o Concat(Tail(ss))

\* The levels of one action, in the order the loop appends them.
ActionLevels(value) ==
    <<value.result.level>> \o [k \in 1..Len(value.messages) |-> value.messages[k].level]

\* list.sort(key, reverse): a stable insertion; with reverse the higher keys
\* come first, and equal keys keep their encounter order either way.
RECURSIVE InsertSorted(_, _, _)
InsertSorted(x, s, reverse) ==
    IF s = <<>> THEN <<x>>
    ELSE IF (IF reverse
             THEN STATUS_CODE[Head(s)] >= STATUS_CODE[x]
             ELSE STATUS_CODE[Head(s)] <= STATUS_CODE[x])
         THEN <<Head(s)>> \o InsertSorted(x, Tail(s), reverse)
         ELSE <<x>> \o s

RECURSIVE SortLevels(_, _)
SortLevels(s, reverse) ==
    IF s = <<>> THEN <<>>
    ELSE InsertSorted(s[Len(s)], SortLevels(SubSeq(s, 1, Len(s) - 1), reverse), reverse)

\* action_results is the mapping in its iteration order: a sequence of
\* [action_id, result, messages].
collect_report_level_ascending(action_results) ==
    LET action_level_combined ==
            Concat([k \in 1..Len(action_results) |-> ActionLevels(action_results[k])])
        valid_action_levels == SelectSeq(action_level_combined, LAMBDA l : l \in Levels)
    IN  SortLevels(valid_action_levels, FALSE)

collect_report_level(action_results) ==
    LET action_level_combined ==
            Concat([k \in 1..Len(action_results) |-> ActionLevels(action_results[k])])
        valid_action_levels == SelectSeq(action_level_combined, LAMBDA l : l \in Levels)
    IN  SortLevels(valid_action_levels, TRUE)

\* combined_levels[0]: IndexError on the empty list.
FirstLevel_default(combined_levels) ==
    IF combined_levels = <<>>
    THEN Return("SUCCESS")
    ELSE Return(combined_levels[1])

FirstLevel(combined_levels) ==
    IF combined_levels = <<>>
    THEN Raise("IndexError", "list index out of range")
    ELSE Return(combined_levels[1])

\* ---------------------------------------------- generate_report_message

MsgReady == "No problems found. The system is ready for conversion."
MsgWarning == "The conversion can proceed. However, there is one or more warnings about issues that might occur after the conversion."
MsgCannot == "The conversion cannot proceed. You must resolve existing issues to perform the conversion."

generate_report_message_above_skip(highest_status) ==
    LET m0 == ""
        m1 == IF STATUS_CODE[highest_status] < STATUS_CODE["WARNING"] THEN MsgReady ELSE m0
        m2 == IF STATUS_CODE[highest_status] = STATUS_CODE["WARNING"] THEN MsgWarning ELSE m1
        m3 == IF STATUS_CODE[highest_status] > STATUS_CODE["SKIP"] THEN MsgCannot ELSE m2
    IN  m3

generate_report_message(highest_status) ==
    LET m0 == ""
        m1 == IF STATUS_CODE[highest_status] < STATUS_CODE["WARNING"] THEN MsgReady ELSE m0
        m2 == IF STATUS_CODE[highest_status] = STATUS_CODE["WARNING"] THEN MsgWarning ELSE m1
        m3 == IF STATUS_CODE[highest_status] > STATUS_CODE["WARNING"] THEN MsgCannot ELSE m2
    IN  m3

\* ---------------------------------------------------- message transform

MessageKeys == <<"id", "level", "description", "remediation", "diagnosis">>

\* The first key apply_message_transform reads that the message lacks.
MissingKey(message) ==
    LET missing == SelectSeq(MessageKeys, LAMBDA k : k \notin DOMAIN message)
    IN  IF missing = <<>> THEN "" ELSE missing[1]

_generate_message_key(action_id, id) == action_id \o "::" \o id

apply_message_transform(message, action_id) ==
    IF MissingKey(message) # ""
    THEN Raise("KeyError", "'" \o MissingKey(message) \o "'")
    ELSE Return([key |-> _generate_message_key(action_id, message.id),
                 severity |-> message.level,
                 summary |-> message.description,
                 detail |-> [remediation |-> [context |-> message.remediation],
                             diagnosis |-> [context |-> message.diagnosis]],
                 modifiers |-> <<>>])

\* The (message, action_id) pairs in the order transform_raw_data visits them:
\* per action its messages, then its own result.
TransformCalls(actions) ==
    Concat([k \in 1..Len(actions) |->
        [j \in 1..Len(actions[k].messages) + 1 |->
            [action_id |-> actions[k].action_id,
             message |-> IF j <= Len(actions[k].messages)
                         THEN actions[k].messages[j]
                         ELSE actions[k].result]]])

transform_raw_data(raw_data) ==
    LET calls == TransformCalls(raw_data.actions)
        outs == [k \in 1..Len(calls) |->
                    apply_message_transform(calls[k].message, calls[k].action_id)]
        failed == SelectSeq(outs, LAMBDA o : ~o.ok)
    IN  IF failed # <<>>
        THEN Raise(failed[1].type, failed[1].message)
        ELSE Return([k \in 1..Len(outs) |-> outs[k].val])

\* ----------------------------------------------------------- raw reports

\* The report with no action; main()'s data before json.load.
NoData == [actions |-> <<>>]

RawMessage(id, level) ==
    [id |-> id, level |-> level, description |-> "desc",
     remediation |-> "rem", diagnosis |-> "diag"]

\* A level convert2rhel does not define stands for every unrecognized one.
InputLevels == Levels \cup {"BOGUS"}
MessageLevels == {"SUCCESS", "WARNING", "ERROR", "BOGUS"}

ActionIds == {"a", "a::b"}
MessageIds == {"c", "b::c"}

\* One action of a report, and the reports of at most two actions over the
\* given bodies: a mapping is a sequence of distinct action ids, in its
\* iteration order.
Action(action_id, body) ==
    [action_id |-> action_id, result |-> body.result, messages |-> body.messages]

ReportsOver(bodies) ==
    {NoData}
    \cup {[actions |-> <<Action(a, b)>>] : a \in ActionIds, b \in bodies}
    \cup {[actions |-> <<Action(p[1], b1), Action(p[2], b2)>>] :
            p \in {q \in ActionIds \X ActionIds : q[1] # q[2]},
            b1 \in bodies, b2 \in bodies}

\* Reports whose levels vary: the result is "r", the messages "m1", "m2", ...
LevelBodies ==
    {[result |-> RawMessage("r", l),
      messages |-> [j \in 1..Len(ls) |-> RawMessage("m" \o ToString(j), ls[j])]] :
        l \in InputLevels, ls \in UNION {[1..n -> MessageLevels] : n \in 0..MaxMessages}}
LevelReports == ReportsOver(LevelBodies)

\* Reports whose ids vary, at one level.
KeyBodies ==
    {[result |-> RawMessage(id, "INFO"),
      messages |-> [j \in 1..Len(ids) |-> RawMessage(ids[j], "INFO")]] :
        id \in MessageIds, ids \in UNION {[1..n -> MessageIds] : n \in 0..MaxMessages}}
KeyReports == ReportsOver(KeyBodies)

\* A message without its "diagnosis" field, as a result and as a message.
Undiagnosed(id, level) == [id |-> id, level |-> level, description |-> "desc", remediation |-> "rem"]
MalformedReports ==
    {[actions |-> <<[action_id |-> "a", result |-> Undiagnosed("r", "INFO"), messages |-> <<>>]>>],
     [actions |-> <<[action_id |-> "a", result |-> RawMessage("r", "SKIP"),
                     messages |-> <<Undiagnosed("m1", "WARNING")>>]>>]}

ExampleReport ==
    [actions |-> <<[action_id |-> "A1", result |-> RawMessage("r", "SUCCESS"),
                    messages |-> <<RawMessage("m1", "WARNING")>>],
                   [action_id |-> "A2", result |-> RawMessage("r", "ERROR"),
                    messages |-> <<>>]>>]

\* What json.load may hand to main(), and to the pipeline alone.
SingleActionReports ==
    {NoData} \cup {[actions |-> <<Action(a, b)>>] : a \in ActionIds, b \in LevelBodies}
MainReports == SingleActionReports \cup {ExampleReport} \cup MalformedReports
PipelineReports == LevelReports \cup KeyReports \cup MalformedReports

\* -------------------------------------------------------- the host's files

\* main()'s required_files list holds three RequiredFile objects.
NFiles == 3

Path(i) ==
    CASE i = 1 -> "/etc/pki/rpm-gpg/RPM-GPG-KEY-redhat-release"
      [] i = 2 -> "/etc/rhsm/ca/redhat-uep.pem"
      [] OTHER -> "/etc/yum.repos.d/convert2rhel.repo"

\* What response.read() returns for every host, and a content that differs.
Fetched == "fetched"
Other == "other"

\* A path is absent, a readable file, a file open() cannot read (IOError),
\* or a directory.
Absent == [kind |-> "absent", content |-> ""]
File(c) == [kind |-> "file", content |-> c]
Unreadable(c) == [kind |-> "unreadable", content |-> c]
Directory == [kind |-> "dir", content |-> ""]
FileStates == {Absent, File(Fetched), File(Other), Unreadable(Fetched), Unreadable(Other), Directory}

\* hashlib.sha512(data).hexdigest(), taken as injective on the contents drawn.
sha512(c) == "sha512(" \o c \o ")"

\* os.path.exists(path)
Exists(f) == f.kind # "absent"

\* open(path, mode="r") followed by handler.read()
OpenRead(f, path) ==
    IF f.kind = "file"
    THEN Return(f.content)
    ELSE Raise("IOError", "cannot open '" \o path \o "'")

\* RequiredFile.__init__
RequiredFile == [sha512_on_system |-> "None", is_file_present |-> FALSE]

\* One pass of verify_required_files_are_present's loop body.
verify_required_file(required_file, f, path) ==
    LET r == OpenRead(f, path)
    IN  IF r.ok
        THEN [sha512_on_system |-> sha512(r.val), is_file_present |-> TRUE]
        ELSE [required_file EXCEPT !.is_file_present = FALSE]

\* downloaded_file_sha512.hexdigest() != required_file.sha512_on_system.hexdigest()
HashesDiffer_inverted(downloaded, on_system) == downloaded = on_system

HashesDiffer(downloaded, on_system) == downloaded # on_system

\* `if returncode:`
Failed_never(returncode) == FALSE

Failed(returncode) == returncode # 0

ReturnCodes == {0, 1}

\* cleanup's test before os.remove
ShouldRemove(required_file, f) == ~required_file.is_file_present /\ Exists(f)

\* The two except clauses of main(): exception.message of a ProcessError is
\* the str() of it.
ErrorOutput_as_message(exception) ==
    OutputCollector("ERROR", exception.message, "", NoneEntries)

ErrorOutput(exception) ==
    OutputCollector("ERROR", "", exception.message, NoneEntries)

\* ------------------------------------------------------------------ state

VARIABLES
    pc,              \* main()'s position
    idx,             \* the index of the running loop over required_files
    fs,              \* the required paths on the host
    fs0,             \* fs before the run (history)
    required_files,  \* the RequiredFile objects
    output,          \* the OutputCollector main() holds
    raised,          \* the exception raised inside main()'s try, if any
    failedAt,        \* pc where it was raised (history)
    escaped,         \* the exception that left main(), if any
    data,            \* the parsed report
    combined_levels, \* collect_report_level's list
    cmds,            \* the subprocesses run, with their return codes
    log,             \* the stages entered, in order (history)
    stdout           \* the JSON blocks printed

vars == <<pc, idx, fs, fs0, required_files, output, raised, failedAt, escaped,
          data, combined_levels, cmds, log, stdout>>

Init ==
    /\ pc = "verify"
    /\ idx = 1
    /\ fs \in [1..NFiles -> FileStates]
    /\ fs0 = fs
    /\ required_files = [i \in 1..NFiles |-> RequiredFile]
    /\ output = OutputCollector("", "", "", NoneEntries)
    /\ raised = NoException
    /\ failedAt = ""
    /\ escaped = NoException
    /\ data = NoData
    /\ combined_levels = <<>>
    /\ cmds = <<>>
    /\ log = <<>>
    /\ stdout = <<>>

\* main() after json.load has returned, every required file having been on
\* the host with the fetched content: the report pipeline's inputs.
PipelineInit ==
    /\ pc = "collect"
    /\ idx = 1
    /\ fs = [i \in 1..NFiles |-> File(Fetched)]
    /\ fs0 = fs
    /\ required_files = [i \in 1..NFiles |->
            [sha512_on_system |-> sha512(Fetched), is_file_present |-> TRUE]]
    /\ output = OutputCollector("", "", "", NoneEntries)
    /\ raised = NoException
    /\ failedAt = ""
    /\ escaped = NoException
    /\ data \in PipelineReports
    /\ combined_levels = <<>>
    /\ cmds = <<[cmd |-> "yum install", rc |-> 0], [cmd |-> "yum update", rc |-> 0],
                [cmd |-> "convert2rhel", rc |-> 0]>>
    /\ log = <<"acquire", "install", "update", "invoke", "read">>
    /\ stdout = <<>>

\* An exception raised inside the try block: control goes to the except clauses.
RaiseInTry(type, message) ==
    /\ raised' = Exception(type, message)
    /\ failedAt' = pc
    /\ pc' = "except"
    /\ idx' = 1

\* os.remove(path)
os_remove(f, path) ==
    IF f.kind = "dir"
    THEN Raise("OSError", "[Errno 21] Is a directory: '" \o path \o "'")
    ELSE Return(Absent)

\* ---------------------------------------------------------------- actions

\* verify_required_files_are_present: one pass of its loop.
VerifyFile ==
    /\ pc = "verify"
    /\ required_files' = [required_files EXCEPT
            ![idx] = verify_required_file(@, fs[idx], Path(idx))]
    /\ log' = IF idx = 1 THEN Append(log, "acquire") ELSE log
    /\ IF idx < NFiles
       THEN idx' = idx + 1 /\ pc' = pc
       ELSE idx' = 1 /\ pc' = "setup"
    /\ UNCHANGED <<fs, fs0, output, raised, failedAt, escaped, data,
                   combined_levels, cmds, stdout>>

\* setup_convert2rhel: one pass of its loop. The download may fail, and so
\* may opening or writing the destination.
SetupFile ==
    /\ pc = "setup"
    /\ \E net \in {"ok", "unreachable"}, disk \in {"ok", "open_fails", "write_fails"} :
        LET Advance == /\ UNCHANGED <<raised, failedAt>>
                       /\ IF idx < NFiles
                          THEN idx' = idx + 1 /\ pc' = pc
                          ELSE idx' = 1 /\ pc' = "install"
        IN  IF net = "unreachable"
            THEN RaiseInTry("URLError", "<urlopen error>") /\ fs' = fs
            ELSE IF Exists(fs[idx])
            THEN /\ fs' = fs
                 /\ IF required_files[idx].sha512_on_system = "None"
                    THEN RaiseInTry("AttributeError",
                                    "'NoneType' object has no attribute 'hexdigest'")
                    ELSE IF HashesDiffer(sha512(Fetched), required_files[idx].sha512_on_system)
                    THEN RaiseInTry("ProcessError",
                            "File '" \o Path(idx) \o "' present on the system does not match the one downloaded. Stopping the execution.")
                    ELSE Advance
            ELSE CASE disk = "ok" ->
                        fs' = [fs EXCEPT ![idx] = File(Fetched)] /\ Advance
                   [] disk = "open_fails" ->
                        fs' = fs /\ RaiseInTry("IOError", "cannot open '" \o Path(idx) \o "'")
                   [] OTHER ->
                        /\ fs' = [fs EXCEPT ![idx] = File("")]
                        /\ RaiseInTry("IOError", "cannot write '" \o Path(idx) \o "'")
    /\ UNCHANGED <<fs0, required_files, output, escaped, data, combined_levels,
                   cmds, log, stdout>>

\* run_subprocess(cmd) and the test of its return code.
RunCommand(cmd, stage, rc, error, next) ==
    /\ cmds' = Append(cmds, [cmd |-> cmd, rc |-> rc])
    /\ log' = Append(log, stage)
    /\ IF Failed(rc)
       THEN RaiseInTry("ProcessError", error \o " exited with code '" \o ToString(rc) \o "'.")
       ELSE pc' = next /\ UNCHANGED <<idx, raised, failedAt>>
    /\ UNCHANGED <<fs, fs0, required_files, output, escaped, data,
                   combined_levels, stdout>>

\* install_convert2rhel: yum install
YumInstall ==
    /\ pc = "install"
    /\ \E rc \in ReturnCodes : RunCommand("yum install", "install", rc, "Yum install", "update")

\* install_convert2rhel: yum update
YumUpdate ==
    /\ pc = "update"
    /\ \E rc \in ReturnCodes : RunCommand("yum update", "update", rc, "Yum update", "run")

\* run_convert2rhel
RunConvert2rhel ==
    /\ pc = "run"
    /\ \E rc \in ReturnCodes : RunCommand("convert2rhel", "invoke", rc, "Convert2RHEL", "read")

\* open(C2R_REPORT_FILE) and json.load
ReadReport ==
    /\ pc = "read"
    /\ log' = Append(log, "read")
    /\ \E outcome \in {"missing", "invalid", "parsed"} :
        CASE outcome = "missing" ->
                RaiseInTry("IOError", "[Errno 2] No such file or directory") /\ data' = data
          [] outcome = "invalid" ->
                RaiseInTry("ValueError", "No JSON object could be decoded") /\ data' = data
          [] OTHER ->
                /\ \E d \in MainReports : data' = d
                /\ pc' = "collect"
                /\ UNCHANGED <<idx, raised, failedAt>>
    /\ UNCHANGED <<fs, fs0, required_files, output, escaped, combined_levels,
                   cmds, stdout>>

\* combined_levels = collect_report_level(action_results=data["actions"])
Collect ==
    /\ pc = "collect"
    /\ combined_levels' = collect_report_level(data.actions)
    /\ log' = Append(log, "aggregate")
    /\ pc' = "status"
    /\ UNCHANGED <<idx, fs, fs0, required_files, output, raised, failedAt,
                   escaped, data, cmds, stdout>>

\* output.status = combined_levels[0]
SetStatus ==
    /\ pc = "status"
    /\ LET first == FirstLevel(combined_levels)
       IN  IF first.ok
           THEN /\ output' = [output EXCEPT !.status = first.val]
                /\ pc' = "text"
                /\ UNCHANGED <<idx, raised, failedAt>>
           ELSE RaiseInTry(first.type, first.message) /\ output' = output
    /\ UNCHANGED <<fs, fs0, required_files, escaped, data, combined_levels,
                   cmds, log, stdout>>

\* output.report = gather_textual_report()
GatherText ==
    /\ pc = "text"
    /\ \E txt \in {"absent", "present", "unreadable"} :
        CASE txt = "absent" ->
                /\ output' = [output EXCEPT !.report = ""]
                /\ pc' = "message"
                /\ UNCHANGED <<idx, raised, failedAt>>
          [] txt = "present" ->
                /\ output' = [output EXCEPT !.report = "textual report"]
                /\ pc' = "message"
                /\ UNCHANGED <<idx, raised, failedAt>>
          [] OTHER ->
                RaiseInTry("IOError", "[Errno 13] Permission denied") /\ output' = output
    /\ UNCHANGED <<fs, fs0, required_files, escaped, data, combined_levels,
                   cmds, log, stdout>>

\* output.message = generate_report_message(combined_levels[0])
GenMessage ==
    /\ pc = "message"
    /\ LET first == FirstLevel(combined_levels)
       IN  IF first.ok
           THEN /\ output' = [output EXCEPT !.message = generate_report_message(first.val)]
                /\ pc' = "transform"
                /\ UNCHANGED <<idx, raised, failedAt>>
           ELSE RaiseInTry(first.type, first.message) /\ output' = output
    /\ UNCHANGED <<fs, fs0, required_files, escaped, data, combined_levels,
                   cmds, log, stdout>>

\* output.entries = transform_raw_data(data)
Transform ==
    /\ pc = "transform"
    /\ LET r == transform_raw_data(data)
       IN  IF r.ok
           THEN /\ output' = [output EXCEPT !.entries = Entries(r.val)]
                /\ pc' = "cleanup"
                /\ idx' = 1
                /\ UNCHANGED <<raised, failedAt>>
           ELSE RaiseInTry(r.type, r.message) /\ output' = output
    /\ UNCHANGED <<fs, fs0, required_files, escaped, data, combined_levels,
                   cmds, log, stdout>>

\* except ProcessError / except Exception
ExceptHandler ==
    /\ pc = "except"
    /\ output' = ErrorOutput(raised)
    /\ pc' = "cleanup"
    /\ UNCHANGED <<idx, fs, fs0, required_files, raised, failedAt, escaped, data,
                   combined_levels, cmds, log, stdout>>

\* finally: cleanup(required_files), one pass of its loop. An exception of
\* os.remove leaves main().
CleanupFile ==
    /\ pc = "cleanup"
    /\ log' = IF idx = 1 THEN Append(log, "cleanup") ELSE log
    /\ LET Advance == IF idx < NFiles
                      THEN idx' = idx + 1 /\ pc' = pc
                      ELSE idx' = 1 /\ pc' = "emit"
           removed == os_remove(fs[idx], Path(idx))
       IN  IF ShouldRemove(required_files[idx], fs[idx])
           THEN IF removed.ok
                THEN /\ fs' = [fs EXCEPT ![idx] = removed.val]
                     /\ escaped' = escaped
                     /\ Advance
                ELSE /\ escaped' = Exception(removed.type, removed.message)
                     /\ pc' = "crashed"
                     /\ UNCHANGED <<fs, idx>>
           ELSE UNCHANGED <<fs, escaped>> /\ Advance
    /\ UNCHANGED <<fs0, required_files, output, raised, failedAt, data,
                   combined_levels, cmds, stdout>>

\* finally: the three prints of the JSON block
Emit ==
    /\ pc = "emit"
    /\ LET d == to_dict(output)
       IN  output' = d[1] /\ stdout' = Append(stdout, d[2])
    /\ log' = Append(log, "emit")
    /\ pc' = "done"
    /\ UNCHANGED <<idx, fs, fs0, required_files, raised, failedAt, escaped, data,
                   combined_levels, cmds>>

Next ==
    \/ VerifyFile
    \/ SetupFile
    \/ YumInstall
    \/ YumUpdate
    \/ RunConvert2rhel
    \/ ReadReport
    \/ Collect
    \/ SetStatus
    \/ GatherText
    \/ GenMessage
    \/ Transform
    \/ ExceptHandler
    \/ CleanupFile
    \/ Emit

Spec == Init /\ [][Next]_vars

\* The report pipeline alone, over every drawn report.
PipelineNext ==
    \/ Collect
    \/ SetStatus
    \/ GatherText
    \/ GenMessage
    \/ Transform
    \/ ExceptHandler

PipelineSpec == PipelineInit /\ [][PipelineNext]_vars

\* ------------------------------------------------------------ properties

\* Every level of a report: each action's result.level and message levels.
AllLevels(actions) ==
    UNION {{actions[k].result.level} \cup
           {actions[k].messages[j].level : j \in DOMAIN actions[k].messages} :
           k \in DOMAIN actions}

Recognized(actions) == AllLevels(actions) \cap Levels

\* The try block ran to its end: status, report, message and entries are set.
TrySucceeded == pc \in {"cleanup", "emit", "done", "crashed"} /\ raised = NoException
TryFailed == pc \in {"cleanup", "emit", "done", "crashed"} /\ raised # NoException

\* C1: every run of main() ends without an exception leaving it and with
\* exactly one JSON block printed, whichever step failed, cleanup included.
C1_OneJsonBlockAlways ==
    /\ Len(stdout) <= 1
    /\ pc \in {"done", "crashed"} => (escaped = NoException /\ Len(stdout) = 1)

\* C2: when main() has finished, every required file that was on the host
\* before the run is there unchanged, and every required file that was not
\* is absent again.
C2_FilesRestored ==
    pc = "done" =>
        \A i \in 1..NFiles :
            /\ fs0[i].kind \in {"file", "unreadable"} => fs[i] = fs0[i]
            /\ fs0[i].kind = "absent" => fs[i].kind = "absent"

\* C3: once a step of the try block has failed, the collector, and the block
\* printed from it, has status ERROR, the failure's message as report, no
\* entries and a null report_json, whatever had been assigned before.
C3_FailureGivesErrorReport ==
    TryFailed =>
        /\ output.status = "ERROR"
        /\ output.report = raised.message
        /\ ~Truthy(output.entries)
        /\ output.report_json = NoneJson
        /\ \A k \in DOMAIN stdout :
            /\ stdout[k].status = "ERROR"
            /\ stdout[k].report = raised.message
            /\ stdout[k].report_json = NoneJson

\* C3 witness: transformation failed after status, report and message had
\* been assigned, and the ERROR block was printed.
C3_Witness ==
    /\ pc = "done"
    /\ failedAt = "transform"
    /\ Len(stdout) = 1
    /\ stdout[1].status = "ERROR"
    /\ stdout[1].report = "'diagnosis'"

\* C4: for a report with a recognized level, collect_report_level's list is
\* non-empty and holds recognized levels only, and the status main() takes
\* from it is a level of the report whose rank no recognized level of the
\* report exceeds.
C4_StatusIsMaxRank ==
    /\ \A k \in DOMAIN combined_levels : combined_levels[k] \in Levels
    /\ (pc # "collect" /\ Recognized(data.actions) # {}) =>
            /\ combined_levels # <<>>
            /\ combined_levels[1] \in Recognized(data.actions)
            /\ \A l \in Recognized(data.actions) :
                    STATUS_CODE[l] <= STATUS_CODE[combined_levels[1]]
    /\ (pc \in {"text", "message", "transform"} \/ TrySucceeded) =>
            /\ output.status \in Recognized(data.actions)
            /\ \A l \in Recognized(data.actions) :
                    STATUS_CODE[l] <= STATUS_CODE[output.status]

\* C4 witness: two actions, an unrecognized level among them, and a message's
\* WARNING taken as the status.
C4_Witness ==
    /\ pc = "text"
    /\ Len(data.actions) = 2
    /\ "BOGUS" \in AllLevels(data.actions)
    /\ data.actions[1].result.level = "INFO"
    /\ output.status = "WARNING"

\* C5: for a report with no action, or with unrecognized levels only, no
\* status is taken from the report: indexing the empty list fails, the
\* pipeline goes no further, and the caller turns the failure into the ERROR
\* report.
C5_NoLevelIsFatal ==
    Recognized(data.actions) = {} =>
        /\ pc \in {"collect", "status", "except", "cleanup"}
        /\ pc \in {"collect", "status", "except"} => output.status = ""
        /\ pc \in {"except", "cleanup"} =>
            /\ raised = Exception("IndexError", "list index out of range")
            /\ failedAt = "status"
        /\ pc = "cleanup" =>
            /\ output.status = "ERROR"
            /\ output.message = ""
            /\ output.report = "list index out of range"
            /\ ~Truthy(output.entries)

\* C5 witness: the report with zero actions has failed at the status step.
C5_Witness ==
    /\ pc = "cleanup"
    /\ data.actions = <<>>
    /\ raised.type = "IndexError"
    /\ output.status = "ERROR"

\* C6: in every printed block report_json is non-null exactly when the
\* collector's entries are non-empty, and is then the three-field dictionary
\* over those entries.
C6_ReportJsonIffEntries ==
    \A k \in DOMAIN stdout :
        /\ stdout[k].report_json # NoneJson <=> Truthy(output.entries)
        /\ stdout[k].report_json = output.report_json
        /\ stdout[k].report_json # NoneJson =>
                stdout[k].report_json =
                    [tasks_format_version |-> "1.0",
                     tasks_format_id |-> "oamg-format",
                     entries |-> output.entries.list]

\* C6 witness: a successful run printed a block with three entries.
C6_Witness ==
    /\ pc = "done"
    /\ raised = NoException
    /\ stdout[1].report_json # NoneJson
    /\ Len(stdout[1].report_json.entries) = 3

\* The (action_id, message id) pairs of a report are pairwise different.
UniquePairs(actions) ==
    LET calls == TransformCalls(actions)
    IN  \A i, j \in DOMAIN calls :
            i # j => <<calls[i].action_id, calls[i].message.id>> #
                     <<calls[j].action_id, calls[j].message.id>>

\* C7: when the (action_id, message id) pairs of the report are unique, no
\* two entries transform_raw_data produced share a key.
C7_KeysInjective ==
    (TrySucceeded /\ UniquePairs(data.actions)) =>
        \A i, j \in DOMAIN output.entries.list :
            i # j => output.entries.list[i].key # output.entries.list[j].key

\* C8: the message generated for the status is the sentence of its band:
\* SUCCESS and INFO, WARNING, or SKIP, OVERRIDABLE and ERROR; it is never
\* empty.
C8_MessageBands ==
    (pc = "transform" \/ TrySucceeded) =>
        /\ output.status \in Levels
        /\ output.message # ""
        /\ output.status \in {"SUCCESS", "INFO"} => output.message = MsgReady
        /\ output.status = "WARNING" => output.message = MsgWarning
        /\ output.status \in {"SKIP", "OVERRIDABLE", "ERROR"} => output.message = MsgCannot

\* C8 witness: SKIP, the lowest level above WARNING, got the third sentence.
C8_Witness ==
    /\ pc = "transform"
    /\ output.status = "SKIP"
    /\ output.message = MsgCannot

\* A required file was on the host with a content other than the fetched one.
Mismatch ==
    \E i \in 1..NFiles :
        fs0[i].kind \in {"file", "unreadable"} /\ fs0[i].content # Fetched

\* C9: when a required file was on the host with another content than the
\* fetched copy, no yum command and no convert2rhel command is ever run, and
\* a printed block has status ERROR.
C9_MismatchAborts ==
    Mismatch =>
        /\ cmds = <<>>
        /\ pc \notin {"install", "update", "run", "read", "collect", "status",
                      "text", "message", "transform"}
        /\ \A k \in DOMAIN stdout : stdout[k].status = "ERROR"

\* C9 witness: the first file was absent and written, the third differed; the
\* run ended with the ProcessError printed and nothing installed.
C9_Witness ==
    /\ pc = "done"
    /\ fs0[1] = Absent
    /\ fs0[3] = File(Other)
    /\ raised.type = "ProcessError"
    /\ cmds = <<>>
    /\ stdout[1].status = "ERROR"

\* The order of the stages in main(), and the order the specification gives.
CodeRank(stage) ==
    CASE stage = "acquire" -> 1 [] stage = "install" -> 2 [] stage = "update" -> 3
      [] stage = "invoke" -> 4 [] stage = "read" -> 5 [] stage = "aggregate" -> 6
      [] stage = "cleanup" -> 7 [] OTHER -> 8
ClaimedRank(stage) ==
    CASE stage = "acquire" -> 1 [] stage = "install" -> 2 [] stage = "update" -> 3
      [] stage = "invoke" -> 4 [] stage = "read" -> 5 [] stage = "aggregate" -> 6
      [] stage = "emit" -> 7 [] OTHER -> 8

InStage(stage) == \E k \in DOMAIN log : log[k] = stage

\* The tool is invoked only after yum install and yum update returned zero.
InvokedOnlyAfterInstall ==
    InStage("invoke") =>
        /\ Len(cmds) >= 3
        /\ cmds[1] = [cmd |-> "yum install", rc |-> 0]
        /\ cmds[2] = [cmd |-> "yum update", rc |-> 0]
        /\ cmds[3].cmd = "convert2rhel"

====
